---- MODULE Spec2Model ----
(***************************************************************************)
(* TaskManagementApp: TasksService (create, findOne, update, remove,       *)
(* updateStatus) over a TypeORM repository, the cache-aside CacheService   *)
(* and the 'task-processing' queue.  Every await on the repository or on   *)
(* the cache manager is one step of a request; the code between two awaits *)
(* runs atomically on the event loop.                                      *)
(***************************************************************************)
EXTENDS Integers, Sequences, FiniteSets, TLC

\* ---------------------------------------------------------------- bounds
MaxTasks == 1        \* rows ever inserted (ids 1..MaxTasks)
MaxOps == 3          \* requests started in one behaviour

Ids == 1..MaxTasks

\* Two request slots: every pair of service calls runs in every order and
\* every interleaving of their awaits.
Procs == {1, 2}

\* ---------------------------------------------------------------- values
UNDEF == "undefined"     \* a field the DTO does not supply
NULL == "null"           \* JS null / SQL NULL

TaskStatus == {"PENDING", "IN_PROGRESS", "COMPLETED", "OVERDUE"}
TaskPriority == {"LOW", "MEDIUM", "HIGH"}
DefaultStatus == "PENDING"

\* A Task row.  id = 0 stands for "no task" (null).  dueDate is NULL, a Date
\* ("Date:1") or the ISO string JSON.stringify turns a Date into ("str:1").
NoTask ==
  [id |-> 0, title |-> "", description |-> NULL, status |-> "",
   priority |-> "", dueDate |-> NULL]

IsTask(t) == t.id # 0

\* The bodies create is called with.
CreateTaskDtos ==
  { [title |-> "a", description |-> UNDEF, status |-> UNDEF,
     priority |-> "MEDIUM", dueDate |-> UNDEF],
    [title |-> "a", description |-> UNDEF, status |-> "IN_PROGRESS",
     priority |-> "HIGH", dueDate |-> "1"] }

\* The bodies update is called with (every field optional).
NoPatch ==
  [title |-> UNDEF, description |-> UNDEF, status |-> UNDEF,
   priority |-> UNDEF, dueDate |-> UNDEF]

UpdateTaskDtos ==
  { [NoPatch EXCEPT !.title = "b", !.description = "d"],
    [NoPatch EXCEPT !.status = "COMPLETED"],
    [NoPatch EXCEPT !.status = "PENDING", !.priority = "LOW", !.dueDate = "1"] }

\* JS truthiness of a DTO field: undefined, null and "" are falsy.
Truthy(v) == v \notin {UNDEF, NULL, ""}

\* new Date(s): the Date of an ISO string.
NewDate(s) == "Date:" \o s

\* JSON.parse(JSON.stringify(task)): a Date comes back as its ISO string.
JsonDate(d) ==
  IF d = "Date:1" THEN "str:1" ELSE d

JsonRoundTrip(t) == [t EXCEPT !.dueDate = JsonDate(t.dueDate)]

\* The timestamp column as the database stores it: a Date, whatever was
\* handed to save (a Date or its ISO string).
ColumnDate(d) ==
  IF d = "str:1" THEN "Date:1" ELSE d

Row(t) == [t EXCEPT !.dueDate = ColumnDate(t.dueDate)]


\* ---------------------------------------------------------------- state
VARIABLES
  store,     \* tasks table: id -> row, NoTask where there is no row
  nextId,    \* the next generated primary key
  cache,     \* cache manager: id -> entry under the key "app:task:<id>"
  queue,     \* jobs the 'task-processing' queue has accepted
  pc,        \* per request: the await it is suspended on
  op,        \* per request: the call (kind, id, body)
  task,      \* per request: the local variable `task`
  orig,      \* per request: the local variable `originalStatus`
  res,       \* per request: how the call ended
  trace,     \* per request: the effects of the call, in order
  nops,      \* requests started so far
  \* History, read by the properties only (no action's guard or effect on
  \* the program state depends on it):
  ver,       \* id -> number of committed writes to the row
  lastWrite, \* id -> the call that made the last committed write
  cver,      \* id -> ver of the row the cache entry was loaded at
  rver,      \* per request: ver of the task findOne gave it (-1: none)
  seen,      \* per get request: ver of its row when the call started
  \* The parts of the program the service calls above do not touch:
  stats,     \* the statistics endpoints: the engine and the last answers
  gcache,    \* CacheService used as a generic cache: its texts, its last call
  batch,     \* TasksController.batchProcess: the request, its loop, its results
  sweep      \* the overdue sweep: its run state and what each run did

prog == <<store, nextId, cache, queue, pc, op, task, orig, res, trace, nops>>
hist == <<ver, lastWrite, cver, rver, seen>>
ext == <<stats, gcache, batch, sweep>>
vars == <<prog, hist, ext>>

\* A cache entry: hit = FALSE when the key is absent; otherwise val is what
\* JSON.parse gives for the stored text (NoTask for the text "null").
NoEntry == [hit |-> FALSE, val |-> NoTask]
Entry(v) == [hit |-> TRUE, val |-> JsonRoundTrip(v)]

NoOp == [kind |-> "none", id |-> 0, dto |-> NoPatch]
NoRes == [kind |-> "none", val |-> NoTask]
Ok(v) == [kind |-> "ok", val |-> v]
Err(k) == [kind |-> k, val |-> NoTask]

\* Nothing but the service calls is running.
NoAnswer ==
  [asked |-> FALSE, total |-> 0, completed |-> 0, inProgress |-> 0,
   pending |-> 0, highPriority |-> 0]
NoStats == [fold |-> FALSE, svc |-> NoAnswer, ctl |-> NoAnswer]
NoGCache == [kv |-> << >>, last |-> << >>]
NoBatch == [state |-> "none"]
NoSweep == [state |-> "none"]

\* No request is in flight, the cache is cold and the queue is empty, over
\* a table whose primary keys are D.
Idle(D) ==
  /\ cache = [i \in D |-> NoEntry]
  /\ queue = {}
  /\ pc = [p \in Procs |-> "idle"]
  /\ op = [p \in Procs |-> NoOp]
  /\ task = [p \in Procs |-> NoTask]
  /\ orig = [p \in Procs |-> ""]
  /\ res = [p \in Procs |-> NoRes]
  /\ trace = [p \in Procs |-> << >>]
  /\ nops = 0
  /\ ver = [i \in D |-> 0]
  /\ lastWrite = [i \in D |-> NoOp]
  /\ cver = [i \in D |-> -1]
  /\ rver = [p \in Procs |-> -1]
  /\ seen = [p \in Procs |-> -1]

Init ==
  /\ stats = NoStats
  /\ gcache = NoGCache
  /\ batch = NoBatch
  /\ sweep = NoSweep
  /\ store = [i \in Ids |-> NoTask]
  /\ nextId = 1
  /\ Idle(Ids)

\* ---------------------------------------------------------------- helpers
\* CacheService.get: null on a miss, else the parsed text.
CacheServiceGet(e) == IF e.hit THEN e.val ELSE NoTask

\* update, lines 86-90: each supplied (truthy) field overwrites the task's.
ApplyPatch(t, d) ==
  [t EXCEPT
     !.title = IF Truthy(d.title) THEN d.title ELSE @,
     !.description = IF Truthy(d.description) THEN d.description ELSE @,
     !.status = IF Truthy(d.status) THEN d.status ELSE @,
     !.priority = IF Truthy(d.priority) THEN d.priority ELSE @,
     !.dueDate = IF Truthy(d.dueDate) THEN NewDate(d.dueDate) ELSE @]

\* repository.create(dto) followed by the insert: the generated id and the
\* column default for an absent status.
NewEntity(i, d) ==
  [id |-> i, title |-> d.title,
   description |-> IF d.description = UNDEF THEN NULL ELSE d.description,
   status |-> IF d.status = UNDEF THEN DefaultStatus ELSE d.status,
   priority |-> d.priority,
   dueDate |-> IF d.dueDate = UNDEF THEN NULL ELSE NewDate(d.dueDate)]

\* taskQueue.add('task-status-update', {taskId, status}), not awaited: the
\* job is accepted (delivered) or the returned promise rejects unobserved.
Job(t) == [taskId |-> t.id, status |-> t.status]

QueueAdd(t, delivered) == IF delivered THEN queue \cup {Job(t)} ELSE queue

PublishEvent(delivered) == IF delivered THEN "publish" ELSE "publishFailed"

\* The request ends: the promise of the service call settles with r and
\* its locals go out of scope.
Settle(p, r) ==
  /\ pc' = [pc EXCEPT ![p] = "idle"]
  /\ res' = [res EXCEPT ![p] = r]
  /\ task' = [task EXCEPT ![p] = NoTask]
  /\ orig' = [orig EXCEPT ![p] = ""]


\* ---------------------------------------------------------------- requests
\* The status values the task processor hands to updateStatus.
ProcessorStatuses == {"OVERDUE"}

Calls ==
  [kind : {"get", "remove"}, id : Ids, dto : {NoPatch}]
    \cup [kind : {"update"}, id : Ids, dto : UpdateTaskDtos]
    \cup [kind : {"updateStatus"}, id : Ids,
          dto : {[NoPatch EXCEPT !.status = s] : s \in ProcessorStatuses}]
    \cup [kind : {"create"}, id : {0}, dto : CreateTaskDtos]

\* The create calls suspended on save: each will take one generated id.
Creating == Cardinality({q \in Procs : pc[q] = "save" /\ op[q].kind = "create"})

\* A controller (or the task processor) calls the service.  create runs up
\* to its await on save; the others up to the await on cacheManager.get.
\* Requests are interchangeable, so a new one takes the first free slot.
Call(p) ==
  /\ pc[p] = "idle"
  /\ \A q \in Procs : q < p => pc[q] # "idle"
  /\ nops < MaxOps
  /\ \E c \in Calls :
       /\ c.kind = "create" => nextId + Creating <= MaxTasks
       /\ op' = [op EXCEPT ![p] = c]
       /\ pc' = [pc EXCEPT ![p] = IF c.kind = "create" THEN "save" ELSE "cacheGet"]
  /\ task' = [task EXCEPT ![p] = NoTask]
  /\ orig' = [orig EXCEPT ![p] = ""]
  /\ res' = [res EXCEPT ![p] = NoRes]
  /\ trace' = [trace EXCEPT ![p] = << >>]
  /\ nops' = nops + 1
  /\ rver' = [rver EXCEPT ![p] = -1]
  /\ seen' = [seen EXCEPT ![p] = IF op'[p].kind = "get" THEN ver[op'[p].id] ELSE -1]
  /\ UNCHANGED <<store, nextId, cache, queue, ver, lastWrite, cver, ext>>

\* The caller's code after `await this.findOne(id)` gave v, up to its next
\* await (update, updateStatus: save; remove: repository.remove).
AfterFindOne(p, v) ==
  CASE op[p].kind = "get" ->
         Settle(p, Ok(v))
    [] op[p].kind = "update" ->
         IF IsTask(v)
           THEN /\ orig' = [orig EXCEPT ![p] = v.status]
                /\ task' = [task EXCEPT ![p] = ApplyPatch(v, op[p].dto)]
                /\ pc' = [pc EXCEPT ![p] = "save"]
                /\ UNCHANGED res
           ELSE Settle(p, Err("TypeError"))
    [] op[p].kind = "updateStatus" ->
         IF IsTask(v)
           THEN /\ task' = [task EXCEPT ![p] = [v EXCEPT !.status = op[p].dto.status]]
                /\ pc' = [pc EXCEPT ![p] = "save"]
                /\ UNCHANGED <<res, orig>>
           ELSE Settle(p, Err("TypeError"))
    [] op[p].kind = "remove" ->
         IF IsTask(v)
           THEN /\ task' = [task EXCEPT ![p] = v]
                /\ pc' = [pc EXCEPT ![p] = "remove"]
                /\ UNCHANGED <<res, orig>>
           ELSE Settle(p, Err("MustBeEntityError"))

\* getOrSet, lines 68-69: await this.get(key); a hit returns the cached
\* value.  A failing cacheManager.get rejects get, getOrSet and findOne.
CacheGet(p) ==
  /\ pc[p] = "cacheGet"
  /\ \E ok \in BOOLEAN :
       IF ~ok
         THEN Settle(p, Err("CacheError"))
         ELSE LET cached == CacheServiceGet(cache[op[p].id]) IN
              IF IsTask(cached)
                THEN AfterFindOne(p, cached)
                ELSE /\ pc' = [pc EXCEPT ![p] = "count"]
                     /\ UNCHANGED <<task, orig, res>>
  /\ rver' = [rver EXCEPT ![p] = IF pc'[p] = "idle" THEN -1 ELSE cver[op[p].id]]
  /\ UNCHANGED <<store, nextId, cache, queue, op, trace, nops>>
  /\ UNCHANGED <<ver, lastWrite, cver, seen, ext>>

\* The fetcher, lines 61-65: count the rows with this id; none: NotFound.
Count(p) ==
  /\ pc[p] = "count"
  /\ \E ok \in BOOLEAN :
       IF ~ok
         THEN Settle(p, Err("StoreError"))
         ELSE IF ~IsTask(store[op[p].id])
                THEN Settle(p, Err("NotFound"))
                ELSE /\ pc' = [pc EXCEPT ![p] = "findOne"]
                     /\ UNCHANGED <<res, task, orig>>
  /\ trace' = [trace EXCEPT ![p] = Append(@, "fetch")]
  /\ UNCHANGED <<store, nextId, cache, queue, op, nops, hist, ext>>

\* The fetcher, lines 67-72: load the row (null when it is gone by now).
FindOne(p) ==
  /\ pc[p] = "findOne"
  /\ \E ok \in BOOLEAN :
       IF ~ok
         THEN Settle(p, Err("StoreError"))
         ELSE /\ task' = [task EXCEPT ![p] = store[op[p].id]]
              /\ pc' = [pc EXCEPT ![p] = "cacheSet"]
              /\ UNCHANGED <<res, orig>>
  /\ rver' = [rver EXCEPT ![p] = ver[op[p].id]]
  /\ UNCHANGED <<store, nextId, cache, queue, op, trace, nops>>
  /\ UNCHANGED <<ver, lastWrite, cver, seen, ext>>

\* getOrSet, lines 73-74: await this.set(key, value); set swallows a
\* failing cacheManager.set.  Then the fetched value is returned.
CacheSet(p) ==
  /\ pc[p] = "cacheSet"
  /\ \E ok \in BOOLEAN :
       /\ cache' = IF ok THEN [cache EXCEPT ![op[p].id] = Entry(task[p])] ELSE cache
       /\ cver' = IF ok THEN [cver EXCEPT ![op[p].id] = rver[p]] ELSE cver
  /\ AfterFindOne(p, task[p])
  /\ UNCHANGED <<store, nextId, queue, op, trace, nops>>
  /\ UNCHANGED <<ver, lastWrite, rver, seen, ext>>


\* create, lines 41-44: the job is added whatever the saved status is.
CreatePublishes(saved) == TRUE

\* update, line 95: the job is added when the status of the saved object
\* differs from the status of the object findOne returned.
UpdatePublishes(originalStatus, updated) == originalStatus # updated.status

\* updateStatus, line 121: nothing is added to the queue.
Publishes(kind, originalStatus, saved) ==
  CASE kind = "create" -> CreatePublishes(saved)
    [] kind = "update" -> UpdatePublishes(originalStatus, saved)
    [] OTHER -> FALSE

\* The result were the publish awaited: its failure would reject the call.
SaveResultAwaitsPublish(saved, delivered) ==
  IF delivered THEN Ok(saved) ELSE Err("QueueError")

\* create line 46, update line 102: the saved task is returned; the promise
\* of taskQueue.add is neither awaited nor caught.
SaveResult(saved, delivered) == Ok(saved)

\* The effects were taskQueue.add called before the await on save.
SaveEffectsPublishFirst(pub, delivered) ==
  IF pub THEN <<PublishEvent(delivered), "store">> ELSE <<"store">>

\* create lines 38-44, update lines 92-100: the row is written by the
\* awaited save, and only then is taskQueue.add called.
SaveEffects(pub, delivered) ==
  IF pub THEN <<"store", PublishEvent(delivered)>> ELSE <<"store">>

\* `await this.tasksRepository.save(task)` and the code after it.  save
\* inserts the row when no row has the id (create; also update of a row
\* removed meanwhile), else updates it.
Save(p) ==
  /\ pc[p] = "save"
  /\ \E ok \in BOOLEAN, delivered \in BOOLEAN :
       IF ~ok
         THEN /\ Settle(p, Err("StoreError"))
              /\ UNCHANGED <<store, nextId, queue, trace, ver, lastWrite>>
         ELSE LET saved == IF op[p].kind = "create"
                             THEN NewEntity(nextId, op[p].dto)
                             ELSE task[p]
                  pub == Publishes(op[p].kind, orig[p], saved)
              IN /\ store' = [store EXCEPT ![saved.id] = Row(saved)]
                 /\ nextId' = IF op[p].kind = "create" THEN nextId + 1 ELSE nextId
                 /\ queue' = IF pub THEN QueueAdd(saved, delivered) ELSE queue
                 /\ trace' = [trace EXCEPT ![p] = @ \o SaveEffects(pub, delivered)]
                 /\ Settle(p, SaveResult(saved, delivered))
                 /\ ver' = [ver EXCEPT ![saved.id] = @ + 1]
                 /\ lastWrite' = [lastWrite EXCEPT ![saved.id] = op[p]]
  /\ UNCHANGED <<cache, op, nops, cver, rver, seen, ext>>

\* remove, line 108: `await this.tasksRepository.remove(task)`.
Remove(p) ==
  /\ pc[p] = "remove"
  /\ \E ok \in BOOLEAN :
       IF ~ok
         THEN /\ Settle(p, Err("StoreError"))
              /\ UNCHANGED <<store, trace, ver, lastWrite>>
         ELSE /\ store' = [store EXCEPT ![op[p].id] = NoTask]
              /\ trace' = [trace EXCEPT ![p] = Append(@, "store")]
              /\ Settle(p, Ok(NoTask))
              /\ ver' = [ver EXCEPT ![op[p].id] = @ + 1]
              /\ lastWrite' = [lastWrite EXCEPT ![op[p].id] = op[p]]
  /\ UNCHANGED <<nextId, cache, queue, op, nops, cver, rver, seen, ext>>

\* The cache manager drops an entry whose TTL (300 s) has run out.
Expire(i) ==
  /\ cache[i].hit
  /\ cache' = [cache EXCEPT ![i] = NoEntry]
  /\ cver' = [cver EXCEPT ![i] = -1]
  /\ UNCHANGED <<store, nextId, queue, pc, op, task, orig, res, trace, nops>>
  /\ UNCHANGED <<ver, lastWrite, rver, seen, ext>>

Next ==
  \/ \E p \in Procs : Call(p)
  \/ \E p \in Procs : CacheGet(p)
  \/ \E p \in Procs : Count(p)
  \/ \E p \in Procs : FindOne(p)
  \/ \E p \in Procs : CacheSet(p)
  \/ \E p \in Procs : Save(p)
  \/ \E p \in Procs : Remove(p)
  \/ \E i \in Ids : Expire(i)

Spec == Init /\ [][Next]_vars


\* ================================================================ properties
Done(p) == pc[p] = "idle" /\ op[p].kind # "none"

InFlight(p) == pc[p] # "idle"

Has(tr, e) == \E k \in 1..Len(tr) : tr[k] = e

\* The call ended with an answer of the service, not with a failure of the
\* store or of the cache manager.
Answered(p) == res[p].kind \notin {"StoreError", "CacheError"}

\* No row of the request's id was written since the request started.
NoWriteSince(p) == seen[p] = ver[op[p].id]

\* Every field the patch supplies has the patch's value in t.
PatchedAs(t, d) ==
  /\ Truthy(d.title) => t.title = d.title
  /\ Truthy(d.description) => t.description = d.description
  /\ Truthy(d.status) => t.status = d.status
  /\ Truthy(d.priority) => t.priority = d.priority
  /\ Truthy(d.dueDate) => ColumnDate(t.dueDate) = NewDate(d.dueDate)

\* C1  Read-after-write: a get(id) that starts after update(id, patch) has
\* returned, with no other write of the row up to its return, returns a task
\* whose patched fields have the patch's values.
C1_ReadAfterWrite ==
  \A p \in Procs :
    (/\ Done(p) /\ op[p].kind = "get" /\ res[p].kind = "ok"
     /\ NoWriteSince(p)
     /\ lastWrite[op[p].id].kind = "update")
    => /\ IsTask(res[p].val)
       /\ PatchedAs(res[p].val, lastWrite[op[p].id].dto)

\* C2  Absence is never cached: a get(x) during which x has no row answers
\* NotFound and leaves no cache entry under the key of x.
C2_AbsenceNotCached ==
  \A p \in Procs :
    (/\ Done(p) /\ op[p].kind = "get" /\ Answered(p)
     /\ NoWriteSince(p)
     /\ ~IsTask(store[op[p].id]))
    => /\ res[p].kind = "NotFound"
       /\ ~cache[op[p].id].hit

\* C3  After delete(id) has returned, and until the row is written again,
\* the store has no row for id, the cache holds no task under id, and every
\* get(id) started since answers NotFound.
C3_DeleteInvalidates ==
  \A i \in Ids :
    lastWrite[i].kind = "remove" =>
      /\ ~IsTask(store[i])
      /\ ~IsTask(CacheServiceGet(cache[i]))
      /\ \A p \in Procs :
           (/\ Done(p) /\ op[p].kind = "get" /\ op[p].id = i
            /\ Answered(p) /\ NoWriteSince(p))
           => res[p].kind = "NotFound"

\* The update call read a task and the store answered its save.
Wrote(p) ==
  /\ Done(p) /\ op[p].kind = "update"
  /\ rver[p] >= 0
  /\ res[p].kind \notin {"StoreError", "TypeError"}

\* C4  Conflict detection: of two update calls on one task that read it at
\* the same version and then write, exactly one succeeds and the other one
\* gets VersionConflict.
C4_ConflictDetection ==
  \A p, q \in Procs :
    (/\ p # q /\ Wrote(p) /\ Wrote(q)
     /\ op[p].id = op[q].id
     /\ rver[p] = rver[q])
    => \/ res[p].kind = "ok" /\ res[q].kind = "VersionConflict"
       \/ res[q].kind = "ok" /\ res[p].kind = "VersionConflict"

\* C5  Single-flight: two get(id) calls in flight at the same time never
\* both fetch the row from the store.
C5_SingleFlight ==
  \A p, q \in Procs :
    (/\ p # q /\ InFlight(p) /\ InFlight(q)
     /\ op[p].kind = "get" /\ op[q].kind = "get"
     /\ op[p].id = op[q].id)
    => ~(Has(trace[p], "fetch") /\ Has(trace[q], "fetch"))

\* The trace has the store write, then the invalidation of the cache entry,
\* and every publish after the invalidation.
InvalidatedInOrder(tr) ==
  \E i, j \in 1..Len(tr) :
    /\ i < j /\ tr[i] = "store" /\ tr[j] = "invalidate"
    /\ \A k \in 1..Len(tr) : tr[k] \in {"publish", "publishFailed"} => j < k

\* C6  Write-path ordering: an update or remove that wrote the store has
\* invalidated the cache entry after the write and before any publish.
C6_WritePathOrdering ==
  \A p \in Procs :
    (Done(p) /\ op[p].kind \in {"update", "remove"} /\ Has(trace[p], "store"))
    => InvalidatedInOrder(trace[p])

AllowedTransition(a, b) ==
  \/ a = b
  \/ a \in {"PENDING", "IN_PROGRESS"} /\ b \in {"COMPLETED", "OVERDUE"}
  \/ a = "OVERDUE" /\ b = "COMPLETED"

\* C7  The stored status of a task changes only along PENDING or
\* IN_PROGRESS -> COMPLETED, PENDING or IN_PROGRESS -> OVERDUE, and
\* OVERDUE -> COMPLETED.
C7_StatusTransitions ==
  [][\A i \in Ids :
       (IsTask(store[i]) /\ IsTask(store'[i]))
       => AllowedTransition(store[i].status, store'[i].status)]_vars

\* C8  Cache failures are invisible: no call of the service ends with the
\* error of a cache operation.
C8_CacheFailuresInvisible ==
  \A p \in Procs : res[p].kind # "CacheError"

\* C9  Notification failures are invisible: a create or update whose publish
\* fails returns the saved task, and the row it wrote is in the store.
C9_PublishFailureInvisible ==
  [][\A p \in Procs :
       (pc[p] = "save" /\ pc'[p] = "idle" /\ Has(trace'[p], "publishFailed"))
       => /\ res'[p].kind = "ok"
          /\ IsTask(res'[p].val)
          /\ store'[res'[p].val.id] = Row(res'[p].val)]_vars

PublishFailed(p, kind) ==
  /\ Done(p) /\ op[p].kind = kind
  /\ Has(trace[p], "publishFailed")
  /\ res[p].kind = "ok"

\* A create and an update have both returned their task after a failed publish.
C9_Witness ==
  \E p, q \in Procs : PublishFailed(p, "create") /\ PublishFailed(q, "update")

\* C10  create publishes only for a status other than the default PENDING:
\* a create that returns a PENDING task has added no job to the queue.
C10_CreatePublishesNonDefault ==
  \A p \in Procs :
    (/\ Done(p) /\ op[p].kind = "create" /\ res[p].kind = "ok"
     /\ res[p].val.status = DefaultStatus)
    => ~Has(trace[p], "publish")


\* Every field the patch does not supply has in `after` the value of `before`.
UnpatchedKept(before, after, d) ==
  /\ d.title = UNDEF => after.title = before.title
  /\ d.description = UNDEF => after.description = before.description
  /\ d.status = UNDEF => after.status = before.status
  /\ d.priority = UNDEF => after.priority = before.priority
  /\ d.dueDate = UNDEF => after.dueDate = before.dueDate

\* The step is the successful save of an update call of p on an existing row.
UpdateSaved(p) ==
  /\ pc[p] = "save" /\ op[p].kind = "update"
  /\ pc'[p] = "idle" /\ res'[p].kind = "ok"
  /\ IsTask(store[op[p].id])

\* C13  update changes only the supplied fields: every field of the row the
\* patch does not supply keeps the value the store held just before the
\* update.
C13_UpdateFrame ==
  [][\A p \in Procs :
       UpdateSaved(p)
       => UnpatchedKept(store[op[p].id], store'[op[p].id], op[p].dto)]_vars

\* The effects the step appended to the trace of p.
NewEffects(p) == SubSeq(trace'[p], Len(trace[p]) + 1, Len(trace'[p]))

\* C14  update publishes if and only if the stored status changes: an update
\* that changes the stored status calls the queue, and an update whose job
\* the queue accepted has changed the stored status.
C14_UpdatePublishesIffChanged ==
  [][\A p \in Procs :
       UpdateSaved(p)
       => LET changed == store[op[p].id].status # store'[op[p].id].status
              new == NewEffects(p)
          IN /\ changed => (Has(new, "publish") \/ Has(new, "publishFailed"))
             /\ Has(new, "publish") => changed]_vars

\* C15  Commit before notify: a create or update calls the queue only after
\* its store write, the row then has the status the job carries, and a
\* failed store write publishes nothing.
C15_CommitBeforeNotify ==
  [][\A p \in Procs :
       pc[p] = "save"
       => LET new == NewEffects(p)
              called == Has(new, "publish") \/ Has(new, "publishFailed")
          IN /\ called =>
                  /\ new[1] = "store"
                  /\ res'[p].kind = "ok"
                  /\ store'[res'[p].val.id].status = res'[p].val.status
                  /\ Has(new, "publish") => Job(res'[p].val) \in queue'
             /\ res'[p].kind = "StoreError" =>
                  /\ new = << >>
                  /\ queue' = queue
                  /\ store' = store]_vars

\* One call has published after its store write, and the save of another
\* call has failed.
C15_Witness ==
  \E p, q \in Procs :
    /\ Done(p) /\ op[p].kind \in {"create", "update"}
    /\ trace[p] # << >> /\ trace[p][Len(trace[p])] = "publish"
    /\ Has(trace[p], "store")
    /\ Done(q) /\ op[q].kind \in {"create", "update"}
    /\ res[q].kind = "StoreError" /\ Has(trace[q], "fetch")


\* ================================================================ statistics
\* GET /tasks/stats (TasksController.getStats) and TasksService.getStats over
\* a table the requests above have filled.
MaxStatRows == 4
StatIds == 1..MaxStatRows

\* A row as create, update and updateStatus leave it; only status and
\* priority matter to the statistics.
StatRow(i, st, pr) ==
  [id |-> i, title |-> "a", description |-> NULL, status |-> st,
   priority |-> pr, dueDate |-> NULL]

StatStores ==
  [StatIds -> {NoTask} \cup {StatRow(1, st, pr) : st \in TaskStatus, pr \in TaskPriority}]

Rows == {store[i] : i \in {j \in DOMAIN store : IsTask(store[j])}}

WithStatus(st) == {r \in Rows : r.status = st}
WithPriority(pr) == {r \in Rows : r.priority = pr}

Answer(total, completed, inProgress, pending, highPriority) ==
  [asked |-> TRUE, total |-> total, completed |-> completed,
   inProgress |-> inProgress, pending |-> pending, highPriority |-> highPriority]

\* TasksController.getStats, lines 85-97: find() loads every row and the
\* five numbers are lengths of filters over them.
ControllerStats ==
  Answer(Cardinality(Rows),
         Cardinality(WithStatus("COMPLETED")),
         Cardinality(WithStatus("IN_PROGRESS")),
         Cardinality(WithStatus("PENDING")),
         Cardinality(WithPriority("HIGH")))

\* A column of the raw row: SQL NULL (or a property the row does not have),
\* or the decimal text of n, which parseInt(.., 10) reads back as n.
Nullish == [nullish |-> TRUE, n |-> 0]
Num(n) == [nullish |-> FALSE, n |-> n]

\* SUM(CASE WHEN .. THEN 1 ELSE 0 END) over the table: NULL over no rows.
SumCase(matching) == IF Rows = {} THEN Nullish ELSE Num(Cardinality(matching))

\* The output names of `.. as total`, `.. as inProgress` etc. are written
\* without quotes.  PostgreSQL (the engine the migration of part_001 and the
\* `$1` placeholder of findByStatus are written for) folds an unquoted
\* name to lower case; MySQL and SQLite keep it as written.
Aliases == {"total", "completed", "inProgress", "pending", "highPriority"}
Lower(a) ==
  CASE a = "inProgress" -> "inprogress"
    [] a = "highPriority" -> "highpriority"
    [] OTHER -> a
ColumnName(a, fold) == IF fold THEN Lower(a) ELSE a

\* lines 124-140: getRawOne gives one row, keyed by the output names.
Column(a) ==
  CASE a = "total" -> Num(Cardinality(Rows))
    [] a = "completed" -> SumCase(WithStatus("COMPLETED"))
    [] a = "inProgress" -> SumCase(WithStatus("IN_PROGRESS"))
    [] a = "pending" -> SumCase(WithStatus("PENDING"))
    [] a = "highPriority" -> SumCase(WithPriority("HIGH"))
RawOne(fold) ==
  [k \in {ColumnName(a, fold) : a \in Aliases} |->
     Column(CHOOSE a \in Aliases : ColumnName(a, fold) = k)]

\* result?.name
Prop(raw, name) == IF name \in DOMAIN raw THEN raw[name] ELSE Nullish
\* parseInt(v ?? '0', 10)
ParseIntOrZero(c) == IF c.nullish THEN 0 ELSE c.n

\* TasksService.getStats, lines 124-149.
ServiceStats(fold) ==
  LET result == RawOne(fold)
  IN  Answer(ParseIntOrZero(Prop(result, "total")),
             ParseIntOrZero(Prop(result, "completed")),
             ParseIntOrZero(Prop(result, "inProgress")),
             ParseIntOrZero(Prop(result, "pending")),
             ParseIntOrZero(Prop(result, "highPriority")))

InitStats ==
  /\ \E f \in BOOLEAN : stats = [NoStats EXCEPT !.fold = f]
  /\ gcache = NoGCache
  /\ batch = NoBatch
  /\ sweep = NoSweep
  /\ \E t \in StatStores :
       store = [i \in StatIds |-> IF IsTask(t[i]) THEN [t[i] EXCEPT !.id = i] ELSE NoTask]
  /\ nextId = MaxStatRows + 1
  /\ Idle(StatIds)

ControllerGetStats ==
  /\ stats' = [stats EXCEPT !.ctl = ControllerStats]
  /\ UNCHANGED <<prog, hist, gcache, batch, sweep>>

ServiceGetStats ==
  /\ stats' = [stats EXCEPT !.svc = ServiceStats(stats.fold)]
  /\ UNCHANGED <<prog, hist, gcache, batch, sweep>>

NextStats == ControllerGetStats \/ ServiceGetStats

SpecStats == InitStats /\ [][NextStats]_vars

\* The answers given so far.
Answers == {a \in {stats.svc, stats.ctl} : a.asked}

\* The numbers of the answer are the numbers of the table.
CountsRight(a) ==
  /\ a.total = Cardinality(Rows)
  /\ a.pending = Cardinality(WithStatus("PENDING"))
  /\ a.inProgress = Cardinality(WithStatus("IN_PROGRESS"))
  /\ a.completed = Cardinality(WithStatus("COMPLETED"))
  /\ a.highPriority = Cardinality(WithPriority("HIGH"))

\* The answer has no overdue count of its own, so an OVERDUE task is
\* accounted for only if the by-status numbers add up to the total.
OverdueAccounted(a) == a.completed + a.inProgress + a.pending = a.total

\* C11: whatever the table holds, every statistics answer has total equal
\* to the number of rows, pending, inProgress and completed equal to the
\* number of rows with that status, highPriority equal to the number of rows
\* with priority HIGH, and every OVERDUE row counted somewhere by status.
C11_StatsCorrect ==
  \A a \in Answers : CountsRight(a) /\ OverdueAccounted(a)

\* C18: once both have answered over the same table, the controller's
\* statistics and the service's are equal field by field.
C18_StatsAgree ==
  (stats.svc.asked /\ stats.ctl.asked) => stats.svc = stats.ctl


\* ================================================================ CacheService
\* CacheService as its callers other than findOne may use it: get, set,
\* delete, clear, getOrSet and has over values of any type, one call at a
\* time.  gcache.kv is the text the cache manager holds under each key and
\* gcache.last is the last call and how it ended.
CacheKeys == {"k1", "k2"}

ABSENT == "<absent>"
ObjectText == "{\"a\":1}"

\* Values: null, a string, a number, an object (v is its JSON text).
Null == [t |-> "null", v |-> ""]
Str(x) == [t |-> "string", v |-> x]
NumberValue(x) == [t |-> "number", v |-> x]
ObjectValue(x) == [t |-> "object", v |-> x]

CacheValues == {Str("hello"), Str("42"), Str(""), NumberValue("42"), ObjectValue(ObjectText)}

\* JSON.stringify of a number or an object.
JsonStringify(value) == value.v

\* set, line 36: a string is stored as it is, anything else as its JSON.
Serialize(value) == IF value.t = "string" THEN value.v ELSE JsonStringify(value)

\* JSON.parse: decimal digits are a number, the object's text an object;
\* any other text here throws SyntaxError.
JsonParse(text) ==
  CASE text = "42" -> [ok |-> TRUE, val |-> NumberValue("42")]
    [] text = ObjectText -> [ok |-> TRUE, val |-> ObjectValue(ObjectText)]
    [] OTHER -> [ok |-> FALSE, val |-> Null]

\* !cached
Falsy(text) == text \in {ABSENT, ""}

\* get, lines 21-31, on the text cacheManager.get resolved with.
Deserialize(text) ==
  IF Falsy(text) THEN Null
  ELSE IF JsonParse(text).ok THEN JsonParse(text).val
  ELSE Str(text)

NoCall ==
  [op |-> "none", key |-> "", read |-> ABSENT, fetched |-> FALSE,
   value |-> Null, out |-> Null, error |-> FALSE]

InitCache ==
  /\ stats = NoStats
  /\ gcache = [kv |-> [k \in CacheKeys |-> ABSENT], last |-> NoCall]
  /\ batch = NoBatch
  /\ sweep = NoSweep
  /\ store = [i \in Ids |-> NoTask]
  /\ nextId = 1
  /\ Idle(Ids)

\* get, lines 17-32: a rejection of cacheManager.get is not caught.
GenericGet(k) ==
  /\ \E ok \in BOOLEAN :
       gcache' = [gcache EXCEPT !.last =
         IF ok
           THEN [NoCall EXCEPT !.op = "get", !.key = k, !.read = gcache.kv[k],
                               !.out = Deserialize(gcache.kv[k])]
           ELSE [NoCall EXCEPT !.op = "get", !.key = k, !.error = TRUE]]
  /\ UNCHANGED <<prog, hist, stats, batch, sweep>>

\* set, lines 34-44: a rejection of cacheManager.set is logged and dropped.
GenericSet(k) ==
  /\ \E value \in CacheValues, ok \in BOOLEAN :
       gcache' = [kv |-> IF ok THEN [gcache.kv EXCEPT ![k] = Serialize(value)]
                               ELSE gcache.kv,
                  last |-> [NoCall EXCEPT !.op = "set", !.key = k, !.value = value]]
  /\ UNCHANGED <<prog, hist, stats, batch, sweep>>

\* delete, lines 46-50.
GenericDelete(k) ==
  /\ \E ok \in BOOLEAN :
       gcache' = [kv |-> IF ok THEN [gcache.kv EXCEPT ![k] = ABSENT] ELSE gcache.kv,
                  last |-> [NoCall EXCEPT !.op = "delete", !.key = k, !.error = ~ok]]
  /\ UNCHANGED <<prog, hist, stats, batch, sweep>>

\* clear, lines 52-61: reset() where the store has one, else an Error.
GenericClear ==
  /\ \E supported \in BOOLEAN :
       gcache' = [kv |-> IF supported THEN [k \in CacheKeys |-> ABSENT] ELSE gcache.kv,
                  last |-> [NoCall EXCEPT !.op = "clear", !.error = ~supported]]
  /\ UNCHANGED <<prog, hist, stats, batch, sweep>>

\* getOrSet, lines 63-75: a value other than null is returned as cached;
\* on null the fetcher runs, its value is set (the text stays as it was if
\* cacheManager.set rejects) and returned.
GenericGetOrSet(k) ==
  /\ \E ok \in BOOLEAN, value \in CacheValues, stored \in BOOLEAN :
       LET cached == Deserialize(gcache.kv[k])
           call == [NoCall EXCEPT !.op = "getOrSet", !.key = k]
       IN  IF ~ok
             THEN gcache' = [gcache EXCEPT !.last = [call EXCEPT !.error = TRUE]]
           ELSE IF cached # Null
             THEN gcache' = [gcache EXCEPT !.last =
                    [call EXCEPT !.read = gcache.kv[k], !.out = cached]]
           ELSE gcache' =
                  [kv |-> IF stored THEN [gcache.kv EXCEPT ![k] = Serialize(value)]
                                    ELSE gcache.kv,
                   last |-> [call EXCEPT !.read = gcache.kv[k], !.fetched = TRUE,
                                         !.value = value, !.out = value]]
  /\ UNCHANGED <<prog, hist, stats, batch, sweep>>

\* has, lines 77-80: the answer is "true" or "false".
GenericHas(k) ==
  /\ \E ok \in BOOLEAN :
       gcache' = [gcache EXCEPT !.last =
         IF ok
           THEN [NoCall EXCEPT !.op = "has", !.key = k, !.read = gcache.kv[k],
                   !.out = Str(IF Deserialize(gcache.kv[k]) # Null THEN "true" ELSE "false")]
           ELSE [NoCall EXCEPT !.op = "has", !.key = k, !.error = TRUE]]
  /\ UNCHANGED <<prog, hist, stats, batch, sweep>>

\* The time to live of an entry runs out.
GenericExpire(k) ==
  /\ gcache.kv[k] # ABSENT
  /\ gcache' = [gcache EXCEPT !.kv[k] = ABSENT]
  /\ UNCHANGED <<prog, hist, stats, batch, sweep>>

NextCache ==
  \/ \E k \in CacheKeys : GenericGet(k)
  \/ \E k \in CacheKeys : GenericSet(k)
  \/ \E k \in CacheKeys : GenericDelete(k)
  \/ GenericClear
  \/ \E k \in CacheKeys : GenericGetOrSet(k)
  \/ \E k \in CacheKeys : GenericHas(k)
  \/ \E k \in CacheKeys : GenericExpire(k)

SpecCache == InitCache /\ [][NextCache]_vars

\* The text is there and JSON.parse throws on it.
Undecodable(text) == ~Falsy(text) /\ ~JsonParse(text).ok

\* C16: a read that finds text that cannot be deserialized treats it as a
\* miss: get returns null, getOrSet calls the fetcher and returns what it
\* fetched, and no error is raised.
C16_UndecodableIsMiss ==
  LET c == gcache.last
  IN  (c.op \in {"get", "getOrSet"} /\ Undecodable(c.read)) =>
        /\ ~c.error
        /\ c.op = "get" => c.out = Null
        /\ c.op = "getOrSet" => (c.fetched /\ c.out = c.value)


\* ================================================================ batchProcess
\* POST /tasks/batch (TasksController.batchProcess): one request over a table
\* with the rows 1 and 2 and no row 3; the service calls of the loop are
\* the calls of TasksService above, made one after the other in slot 1.
MaxBatch == 3
BatchIds == {1, 2, 3}
MissingIds == {3}
BatchActions == {"complete", "delete", "archive"}

BatchStore ==
  [i \in BatchIds |->
     IF i \in MissingIds THEN NoTask
     ELSE Row(NewEntity(i, [title |-> "a", description |-> UNDEF,
                            status |-> IF i = 1 THEN UNDEF ELSE "IN_PROGRESS",
                            priority |-> "MEDIUM", dueDate |-> UNDEF]))]

\* The bodies { tasks: string[], action: string }.
BatchRequests ==
  [tasks : UNION {[1..n -> BatchIds] : n \in 0..MaxBatch}, action : BatchActions]

InitBatch ==
  /\ stats = NoStats
  /\ gcache = NoGCache
  /\ batch = NoBatch
  /\ sweep = NoSweep
  /\ store = BatchStore
  /\ nextId = 3
  /\ Idle(BatchIds)

\* lines 147-150: the body is taken apart and results starts empty.
BatchProcess ==
  /\ batch.state = "none"
  /\ \E operations \in BatchRequests :
       batch' = [state |-> "loop", taskIds |-> operations.tasks,
                 action |-> operations.action, i |-> 1, results |-> << >>]
  /\ UNCHANGED <<prog, hist, stats, gcache, sweep>>

\* lines 157-163: the service call for this id, up to its first await.
BatchServiceCall(action, taskId) ==
  IF action = "complete"
    THEN [kind |-> "update", id |-> taskId, dto |-> [NoPatch EXCEPT !.status = "COMPLETED"]]
    ELSE [kind |-> "remove", id |-> taskId, dto |-> NoPatch]

BatchCall ==
  /\ batch.state = "loop"
  /\ batch.i <= Len(batch.taskIds)
  /\ batch.action \in {"complete", "delete"}
  /\ pc[1] = "idle"
  /\ op' = [op EXCEPT ![1] = BatchServiceCall(batch.action, batch.taskIds[batch.i])]
  /\ pc' = [pc EXCEPT ![1] = "cacheGet"]
  /\ res' = [res EXCEPT ![1] = NoRes]
  /\ trace' = [trace EXCEPT ![1] = << >>]
  /\ nops' = nops + 1
  /\ batch' = [batch EXCEPT !.state = "await"]
  /\ UNCHANGED <<store, nextId, cache, queue, task, orig, hist, stats, gcache, sweep>>

\* The loop stopped at the first id that failed.
AfterFailureStop(i, n) == n + 1

\* lines 169-177: the catch block pushes an entry and the loop goes on to
\* the next id.
AfterFailure(i, n) == i + 1

\* lines 168-176: the awaited call has settled; an entry is pushed.
BatchPush(taskId, r) ==
  IF r.kind = "ok"
    THEN [taskId |-> taskId, success |-> TRUE, error |-> ""]
    ELSE [taskId |-> taskId, success |-> FALSE, error |-> r.kind]

BatchNextIndex(r) ==
  IF r.kind = "ok" THEN batch.i + 1 ELSE AfterFailure(batch.i, Len(batch.taskIds))

BatchSettled ==
  /\ batch.state = "await"
  /\ pc[1] = "idle"
  /\ batch' = [batch EXCEPT !.state = "loop",
                            !.i = BatchNextIndex(res[1]),
                            !.results = Append(@, BatchPush(batch.taskIds[batch.i], res[1]))]
  /\ UNCHANGED <<prog, hist, stats, gcache, sweep>>

\* lines 164-165: any other action throws HttpException inside the try.
BatchUnknownAction ==
  /\ batch.state = "loop"
  /\ batch.i <= Len(batch.taskIds)
  /\ batch.action \notin {"complete", "delete"}
  /\ batch' = [batch EXCEPT !.i = BatchNextIndex(Err("HttpException")),
                            !.results = Append(@, BatchPush(batch.taskIds[batch.i],
                                                            Err("HttpException")))]
  /\ UNCHANGED <<prog, hist, stats, gcache, sweep>>

\* line 179: return results.
BatchReturn ==
  /\ batch.state = "loop"
  /\ batch.i > Len(batch.taskIds)
  /\ batch' = [batch EXCEPT !.state = "done"]
  /\ UNCHANGED <<prog, hist, stats, gcache, sweep>>

NextBatch ==
  \/ BatchProcess
  \/ BatchCall
  \/ BatchSettled
  \/ BatchUnknownAction
  \/ BatchReturn
  \/ \E p \in Procs : CacheGet(p)
  \/ \E p \in Procs : Count(p)
  \/ \E p \in Procs : FindOne(p)
  \/ \E p \in Procs : CacheSet(p)
  \/ \E p \in Procs : Save(p)
  \/ \E p \in Procs : Remove(p)
  \/ \E i \in BatchIds : Expire(i)

SpecBatch == InitBatch /\ [][NextBatch]_vars

\* The action of a successful entry is in the table.
Applied(action, id) ==
  CASE action = "complete" -> IsTask(store[id]) /\ store[id].status = "COMPLETED"
    [] action = "delete" -> ~IsTask(store[id])
    [] OTHER -> FALSE

\* C17: when batchProcess returns, results has exactly one entry per input
\* id, in input order; an id with no task and every id of an unknown action
\* has success false, and that does not stop the loop: every entry with
\* success true, before or after a failing one, has its update or delete
\* applied to the table.
C17_BatchResults ==
  batch.state = "done" =>
    /\ Len(batch.results) = Len(batch.taskIds)
    /\ \A k \in 1..Len(batch.results) :
         /\ batch.results[k].taskId = batch.taskIds[k]
         /\ batch.taskIds[k] \in MissingIds => ~batch.results[k].success
         /\ batch.action \notin {"complete", "delete"} => ~batch.results[k].success
         /\ batch.results[k].success => Applied(batch.action, batch.taskIds[k])
    /\ batch.action \notin {"complete", "delete"} => store = BatchStore

\* A batch that completed task 1, failed on the missing task 3 and went on
\* to complete task 2.
C17_Witness ==
  /\ batch.state = "done"
  /\ batch.action = "complete"
  /\ batch.taskIds = <<1, 3, 2>>
  /\ [k \in 1..3 |-> batch.results[k].success] = <<TRUE, FALSE, TRUE>>
  /\ store[1].status = "COMPLETED"
  /\ store[2].status = "COMPLETED"


\* ================================================================ overdue sweep
\* The OverdueSweeper of the specification (section 4.4); its service,
\* OverdueTasksService, is provided by ScheduledTasksModule.  Per run:
\* IDLE -> RUNNING -> {COMPLETED, FAILED} -> IDLE, under an exclusive lease.
\* No request runs beside the sweep.
MaxRuns == 2
SweepIds == {1, 2}

\* Due dates before now (yesterday) and after now (tomorrow).
Yesterday == NewDate("1")
Tomorrow == NewDate("9")
Elapsed(d) == d = Yesterday

SweepRow(i, st, due) ==
  [id |-> i, title |-> "a", description |-> NULL, status |-> st,
   priority |-> "MEDIUM", dueDate |-> due]

SweepStores ==
  [SweepIds -> {NoTask} \cup {SweepRow(1, st, due) :
                               st \in TaskStatus, due \in {NULL, Yesterday, Tomorrow}}]

\* The filter were the due date alone.
IsOverdueCandidateAnyStatus(t) ==
  IsTask(t) /\ Elapsed(t.dueDate)

\* listOverdueCandidates(now): status in {PENDING, IN_PROGRESS} and
\* dueDate < now.
IsOverdueCandidate(t) ==
  IsTask(t) /\ t.status \in {"PENDING", "IN_PROGRESS"} /\ Elapsed(t.dueDate)

\* The ids of S in ascending order.
RECURSIVE Ascending(_)
Ascending(S) ==
  IF S = {} THEN << >>
  ELSE LET least == CHOOSE i \in S : \A j \in S : i <= j
       IN  <<least>> \o Ascending(S \ {least})

ListOverdueCandidates == Ascending({i \in DOMAIN store : IsOverdueCandidate(store[i])})

InitSweep ==
  /\ stats = NoStats
  /\ gcache = NoGCache
  /\ batch = NoBatch
  /\ sweep = [state |-> "IDLE", lease |-> FALSE, candidates |-> << >>,
              notified |-> {}, runs |-> << >>]
  /\ \E t \in SweepStores :
       store = [i \in SweepIds |-> IF IsTask(t[i]) THEN [t[i] EXCEPT !.id = i] ELSE NoTask]
  /\ \E warm \in SUBSET SweepIds :
       cache = [i \in SweepIds |->
                  IF i \in warm /\ IsTask(store[i]) THEN Entry(store[i]) ELSE NoEntry]
  /\ nextId = 3
  /\ queue = {}
  /\ pc = [p \in Procs |-> "idle"]
  /\ op = [p \in Procs |-> NoOp]
  /\ task = [p \in Procs |-> NoTask]
  /\ orig = [p \in Procs |-> ""]
  /\ res = [p \in Procs |-> NoRes]
  /\ trace = [p \in Procs |-> << >>]
  /\ nops = 0
  /\ ver = [i \in SweepIds |-> 0]
  /\ lastWrite = [i \in SweepIds |-> NoOp]
  /\ cver = [i \in SweepIds |-> IF cache[i].hit THEN 0 ELSE -1]
  /\ rver = [p \in Procs |-> -1]
  /\ seen = [p \in Procs |-> -1]

\* The timer fires: the lease is free, so it is taken, the run enters
\* RUNNING and scans the candidates.
SweepTick ==
  /\ sweep.state = "IDLE"
  /\ ~sweep.lease
  /\ Len(sweep.runs) < MaxRuns
  /\ sweep' = [sweep EXCEPT !.state = "RUNNING", !.lease = TRUE,
                            !.candidates = ListOverdueCandidates, !.notified = {}]
  /\ UNCHANGED <<prog, hist, stats, gcache, batch>>

\* One candidate: RecordStore.update(id, version, {status: OVERDUE}); on
\* success the cache entry is invalidated and the change is notified (a
\* failed publish is logged only).  An unexpected error fails the run.
SweepCandidate ==
  /\ sweep.state = "RUNNING"
  /\ sweep.candidates # << >>
  /\ LET id == Head(sweep.candidates) IN
     \E ok \in BOOLEAN, delivered \in BOOLEAN :
       IF ~ok
         THEN /\ sweep' = [sweep EXCEPT !.state = "FAILED", !.candidates = << >>]
              /\ UNCHANGED <<store, cache, queue, ver, cver>>
         ELSE /\ store' = [store EXCEPT ![id].status = "OVERDUE"]
              /\ ver' = [ver EXCEPT ![id] = @ + 1]
              /\ cache' = [cache EXCEPT ![id] = NoEntry]
              /\ cver' = [cver EXCEPT ![id] = -1]
              /\ queue' = QueueAdd(store'[id], delivered)
              /\ sweep' = [sweep EXCEPT !.candidates = Tail(@),
                                        !.notified = @ \cup {id}]
  /\ UNCHANGED <<nextId, pc, op, task, orig, res, trace, nops, lastWrite, rver, seen>>
  /\ UNCHANGED <<stats, gcache, batch>>

\* No candidate is left.
SweepComplete ==
  /\ sweep.state = "RUNNING"
  /\ sweep.candidates = << >>
  /\ sweep' = [sweep EXCEPT !.state = "COMPLETED"]
  /\ UNCHANGED <<prog, hist, stats, gcache, batch>>

\* The run is over: the lease is released and the sweeper is IDLE again.
SweepRelease ==
  /\ sweep.state \in {"COMPLETED", "FAILED"}
  /\ sweep' = [sweep EXCEPT !.state = "IDLE", !.lease = FALSE,
                 !.runs = Append(@, [outcome |-> sweep.state,
                                     notified |-> sweep.notified,
                                     after |-> store])]
  /\ UNCHANGED <<prog, hist, stats, gcache, batch>>

NextSweep == SweepTick \/ SweepCandidate \/ SweepComplete \/ SweepRelease

SpecSweep == InitSweep /\ [][NextSweep]_vars

\* C12: a sweep run that follows a completed run, with nothing else
\* changing the table in between, leaves the table as the first run left
\* it and notifies no status change: it finds no candidate.
C12_IdempotentSweep ==
  (sweep.state = "RUNNING" /\ sweep.runs # << >>
     /\ sweep.runs[Len(sweep.runs)].outcome = "COMPLETED"
   => sweep.candidates = << >>)
  /\ \A r \in 1..(Len(sweep.runs) - 1) :
       sweep.runs[r].outcome = "COMPLETED" =>
         /\ sweep.runs[r + 1].outcome = "COMPLETED"
         /\ sweep.runs[r + 1].notified = {}
         /\ sweep.runs[r + 1].after = sweep.runs[r].after

\* Two runs have ended; the first completed, made both tasks OVERDUE and
\* notified both changes.
C12_Witness ==
  /\ Len(sweep.runs) = 2
  /\ sweep.runs[1].outcome = "COMPLETED"
  /\ sweep.runs[1].notified = {1, 2}
  /\ sweep.runs[2].outcome = "COMPLETED"
  /\ \A i \in SweepIds : store[i].status = "OVERDUE"
  /\ Cardinality(queue) = 2

====
